---- MODULE Spec2Model ----
(***************************************************************************)
(* A model of FIGARO's inference-support code:                             *)
(*   - figaro/pipelines/entropy.py, main(): the sequential convergence     *)
(*     diagnostic (reconstruction loop, then zero-crossing aggregation);   *)
(*   - figaro/load.py, _find_redshift / _unpack_gw_posterior: the redshift *)
(*     inversion applied to a batch of luminosity distances;               *)
(*   - figaro/utils.py, recursive_grid: the bounded grid.                  *)
(*                                                                         *)
(* Python values are modelled as follows.  A numpy array or a list is a    *)
(* sequence (1-based here, 0-based in the source: position p of the source *)
(* is element p+1).  None is the empty tuple and a present value v is the  *)
(* one-element tuple <<v>>.  A real number produced by np.linspace is an   *)
(* exact fraction <<numerator, denominator>>; floating-point rounding is   *)
(* not modelled.  An uncaught exception sets err and stops the program.    *)
(***************************************************************************)
EXTENDS Integers, Sequences, FiniteSets, TLC

VARIABLES
    \* ---- entropy.py main(): inputs
    options,        \* the parsed options that the diagnostic reads
    orig,           \* the samples as load_single_event returned them
    samples,        \* the working sample array (the same numpy object)
    window_given,   \* options.window as it stands at line 96, in samples
    warned,         \* the warning of line 97 was issued
    \* ---- entropy.py main(): reconstruction loop
    pc,             \* position of main()
    j,              \* index of the current draw (0-based)
    i,              \* position of the next sample to ingest (0-based)
    mix,            \* the estimator: the points added since initialise()
    S,              \* entropy values of the current draw
    n_eval_S,       \* sample index of each entropy evaluation
    draws,          \* mixture snapshots, one per finished draw
    entropy,        \* entropy arrays (after line 120: index row first)
    err,            \* the uncaught exception, "none" while running
    file_draws,     \* draws_<name>.pkl, None until written
    file_entropy,   \* entropy_<name>.txt, None until written
    \* ---- entropy.py main(): aggregation
    n_samps_S,      \* entropy[0] of line 149
    entropy_interval, \* the interval recomputed at line 151
    ang_coeff,      \* angular coefficients, one series per draw
    zero_crossings, \* sample indices of the sign changes, per draw
    zi,             \* loop position of "for zc in zero_crossings"
    endpoints,      \* line 157
    conv_not_reached_flag, \* line 158
    EP,             \* line 165 / 173
    file_endpoint,  \* endpoint_<name>.txt, None until written
    printed,        \* what lines 169-175 print: the text, the number in it,
                    \* and whether the WARNING line follows
    \* ---- load.py _unpack_gw_posterior / _find_redshift
    LD,             \* the luminosity distances of the file
    nonconv,        \* the distances for which the root search fails
    par,            \* the parameter asked for
    lpc,            \* position of _unpack_gw_posterior
    li,             \* position of the list comprehension (1-based)
    z,              \* the redshifts found so far
    load_result,    \* what the caller of the load gets, None if nothing
    \* ---- utils.py recursive_grid
    g_bounds,       \* argument bounds
    g_n_pts,        \* argument n_pts
    gpc,            \* "call", "returned" or "raised"
    g_result,       \* the returned (grid, diff), None if nothing
    \* ---- utils.py get_priors
    p_args,         \* the arguments bounds, samples, mean, std, cov, df, k
    ppc,            \* "call", "resolved", "returned" or "raised"
    df_out,         \* lines 104-107
    draw_flag,      \* lines 109, 123, 126
    mu_out,         \* lines 115-119
    L_out,          \* lines 122-134, 148
    k_out,          \* lines 137-139
    p_result,       \* the returned tuple, None if nothing
    \* ---- utils.py rejection_sampler
    r_args,         \* the arguments n_draws, f, bounds, selfunc
    top,            \* line 61
    r_samples,      \* the list `samples` of line 62
    pts,            \* the candidates of the last iteration, line 64
    h,              \* the heights of the last iteration, line 66
    rpc,            \* "call", "loop" or "returned"
    r_result,       \* the returned array, None if nothing
    \* ---- utils.py rejection_sampler, two calls in one process
    stream,         \* the values that the seeded generator np.random yields
    rng,            \* the state of np.random: the position in the stream
    calls,          \* the two calls: arguments, locals, position, result
    \* ---- entropy.py main(), two executions with one seed
    seeded,         \* what both executions are given: samples, options, seed
    execs,          \* the two executions: generator, locals, position
    \* ---- par_probability_density.py worker / main()
    heap,           \* the sample arrays in memory, by owner (0: main())
    workers,        \* the actors: self.samples, self.mixture, position
    pending,        \* draws that map_unordered has not yet submitted
    par_draws,      \* the list `draws` of main(), line 134
    par_file        \* what save_density wrote, None until written

diagVars == <<options, orig, samples, window_given, warned, pc, j, i, mix, S,
              n_eval_S, draws, entropy, err, file_draws, file_entropy,
              n_samps_S, entropy_interval, ang_coeff, zero_crossings, zi,
              endpoints, conv_not_reached_flag, EP, file_endpoint, printed>>

loadVars == <<LD, nonconv, par, lpc, li, z, load_result>>

gridVars == <<g_bounds, g_n_pts, gpc, g_result>>

priorVars == <<p_args, ppc, df_out, draw_flag, mu_out, L_out, k_out, p_result>>

samplerVars == <<r_args, top, r_samples, pts, h, rpc, r_result>>

reentVars == <<stream, rng, calls>>

seedVars == <<seeded, execs>>

parVars == <<heap, workers, pending, par_draws, par_file>>

vars == <<diagVars, loadVars, gridVars, priorVars, samplerVars, reentVars,
          seedVars, parVars>>

-----------------------------------------------------------------------------
(* Bounds of the model *)

MaxN == 3            \* samples in a reconstruction
MaxInterval == 2     \* options.entropy_interval
MaxTrace == 5        \* entropy evaluations per draw in a stored trace
MaxZ == 2            \* options.zero_crossings
MaxWindow == 3       \* options.window when given
MaxBatch == 3        \* luminosity distances in a file
MaxDistance == 2     \* distinct luminosity distances
MaxDim == 2          \* dimensions of a grid
MaxCoord == 2        \* the bounds of a grid are integers of 0..MaxCoord
MaxPts == 3          \* points per dimension of a grid

EntropyValues == {0, 2}   \* values the entropy functional may return
DrawCounts == {1, 2}      \* options.n_draws: one draw, more than one

(* Program constants *)

min_window == 200

-----------------------------------------------------------------------------
(* Python helpers *)

None == <<>>
Some(v) == <<v>>
Val(x) == x[1]

\* an optional argument: None or a value of V
Hints(V) == {None} \cup {Some(v) : v \in V}

Range(s) == {s[p] : p \in DOMAIN s}

Zeros(n) == [p \in 1..n |-> 0]

Max(a, b) == IF a >= b THEN a ELSE b

RECURSIVE Sum(_)
Sum(s) == IF s = <<>> THEN 0 ELSE Head(s) + Sum(Tail(s))

\* a mutant of Sign: zero counts as positive
SignNoZero(x) == IF x >= 0 THEN 1 ELSE -1

\* np.sign
Sign(x) == IF x > 0 THEN 1 ELSE IF x < 0 THEN -1 ELSE 0

\* np.diff: out[p] = a[p+1] - a[p]
Diff(a) == [p \in 1..(IF Len(a) = 0 THEN 0 ELSE Len(a) - 1) |-> a[p + 1] - a[p]]

\* np.where(a)[0]: the 0-based positions of the non-zero entries, ascending
RECURSIVE WhereFrom(_, _)
WhereFrom(a, p) ==
    IF p > Len(a) THEN <<>>
    ELSE IF a[p] # 0 THEN <<p - 1>> \o WhereFrom(a, p + 1)
    ELSE WhereFrom(a, p + 1)
Where(a) == WhereFrom(a, 1)

-----------------------------------------------------------------------------
(* The estimator (figaro.mixture.DPGMM) and the diagnostic primitives      *)
(* (figaro.diagnostic) as the pipeline uses them.                          *)

\* a mutant of initialise: the estimator keeps the points of the last draw
initialise_keeps_points == mix

\* mix.initialise(): an estimator that has seen no point
initialise == <<>>

\* mix.add_new_point(s)
add_new_point(m, s) == Append(m, s)

\* mix.build_mixture(): the snapshot, determined by the points ingested
build_mixture(m) == [n_pts |-> Len(m), pts |-> Range(m)]

\* compute_angular_coefficients(S, window): the local finite-difference
\* derivative of the trace over a window, defined from offset `window` on
compute_angular_coefficients(x, L) ==
    [p \in 1..(IF Len(x) > L THEN Len(x) - L ELSE 0) |-> x[p + L] - x[p]]

-----------------------------------------------------------------------------
(* main(): entropy-derivative window, lines 89-98 *)

\* lines 91-95: the window when --window is not given
DefaultWindow(n) ==
    IF n > min_window THEN Max(n \div 5, min_window) ELSE n \div 5

\* line 98
EffectiveWindow(w, k) == w \div k

EntropyWindow ==
    /\ pc = "window"
    /\ LET w == IF options.window = None THEN DefaultWindow(Len(samples))
                ELSE Val(options.window)
       IN /\ window_given' = w
          /\ warned' = (w < min_window)
          /\ options' = [options EXCEPT
                            !.window = Some(EffectiveWindow(w, options.entropy_interval))]
    /\ pc' = IF options.postprocess THEN "postprocess" ELSE "draw"
    /\ UNCHANGED <<orig, samples, j, i, mix, S, n_eval_S, draws, entropy, err,
                   file_draws, file_entropy, n_samps_S, entropy_interval,
                   ang_coeff, zero_crossings, zi, endpoints,
                   conv_not_reached_flag, EP, file_endpoint, printed>>
    /\ UNCHANGED <<loadVars, gridVars, priorVars, samplerVars, reentVars,
                 seedVars, parVars>>

-----------------------------------------------------------------------------
(* main(): reconstruction, lines 103-124 *)

\* len(samples)//options.entropy_interval, the size of S and n_eval_S
TraceSize(n, k) == n \div k

\* a mutant of Shuffles: rows drawn with replacement (np.random.choice)
ShufflesWithReplacement(s) ==
    {[q \in 1..Len(s) |-> s[p[q]]] : p \in [1..Len(s) -> 1..Len(s)]}

\* a mutant of Shuffles: the reordering loses the last row
ShufflesDropLast(s) ==
    LET n == Len(s)
        perms == {p \in [1..n -> 1..n] : \A a, b \in 1..n : p[a] = p[b] => a = b}
    IN {[q \in 1..(n - 1) |-> s[p[q]]] : p \in perms}

\* np.random.shuffle(samples): every reordering of the array, in place
Shuffles(s) ==
    LET n == Len(s)
        perms == {p \in [1..n -> 1..n] : \A a, b \in 1..n : p[a] = p[b] => a = b}
    IN {[q \in 1..n |-> s[p[q]]] : p \in perms}

\* lines 107-111: a new draw starts
StartDraw ==
    /\ pc = "draw"
    /\ j < options.n_draws
    /\ S' = Zeros(TraceSize(Len(samples), options.entropy_interval))
    /\ n_eval_S' = Zeros(TraceSize(Len(samples), options.entropy_interval))
    /\ mix' = initialise
    /\ samples' \in Shuffles(samples)
    /\ i' = 0
    /\ pc' = "ingest"
    /\ UNCHANGED <<options, orig, window_given, warned, j, draws, entropy, err,
                   file_draws, file_entropy, n_samps_S, entropy_interval,
                   ang_coeff, zero_crossings, zi, endpoints,
                   conv_not_reached_flag, EP, file_endpoint, printed>>
    /\ UNCHANGED <<loadVars, gridVars, priorVars, samplerVars, reentVars,
                 seedVars, parVars>>

\* a mutant of NextSample: the first row is taken at every step
NextSampleFirst(smp, n) == smp[1]

\* line 112: the sample that enumerate(samples) yields at 0-based position n
NextSample(smp, n) == smp[n + 1]

\* lines 112-116: one sample is ingested; the entropy is evaluated and stored
\* at position i//entropy_interval when i is a multiple of the interval.
\* Storing past the end of S raises IndexError.
AddNewPoint ==
    /\ pc = "ingest"
    /\ i < Len(samples)
    /\ mix' = add_new_point(mix, NextSample(samples, i))
    /\ LET k == options.entropy_interval
           slot == (i \div k) + 1
       IN IF i % k = 0
          THEN IF slot <= Len(S)
               THEN /\ \E e \in EntropyValues : S' = [S EXCEPT ![slot] = e]
                    /\ n_eval_S' = [n_eval_S EXCEPT ![slot] = i]
                    /\ i' = i + 1
                    /\ UNCHANGED <<pc, err>>
               ELSE /\ pc' = "crashed"
                    /\ err' = "IndexError"
                    /\ UNCHANGED <<S, n_eval_S, i>>
          ELSE /\ i' = i + 1
               /\ UNCHANGED <<S, n_eval_S, pc, err>>
    /\ UNCHANGED <<options, orig, samples, window_given, warned, j, draws,
                   entropy, file_draws, file_entropy, n_samps_S,
                   entropy_interval, ang_coeff, zero_crossings, zi, endpoints,
                   conv_not_reached_flag, EP, file_endpoint, printed>>
    /\ UNCHANGED <<loadVars, gridVars, priorVars, samplerVars, reentVars,
                 seedVars, parVars>>

\* lines 113/115: the estimator or the entropy functional raises; nothing in
\* main() catches it
AddNewPointRaises ==
    /\ pc = "ingest"
    /\ i < Len(samples)
    /\ pc' = "crashed"
    /\ err' = "EstimatorError"
    /\ UNCHANGED <<options, orig, samples, window_given, warned, j, i, mix, S,
                   n_eval_S, draws, entropy, file_draws, file_entropy,
                   n_samps_S, entropy_interval, ang_coeff, zero_crossings, zi,
                   endpoints, conv_not_reached_flag, EP, file_endpoint, printed>>
    /\ UNCHANGED <<loadVars, gridVars, priorVars, samplerVars, reentVars,
                 seedVars, parVars>>

\* lines 117-118: the draw is over
FinishDraw ==
    /\ pc = "ingest"
    /\ i = Len(samples)
    /\ draws' = Append(draws, build_mixture(mix))
    /\ entropy' = Append(entropy, S)
    /\ j' = j + 1
    /\ pc' = "draw"
    /\ UNCHANGED <<options, orig, samples, window_given, warned, i, mix, S,
                   n_eval_S, err, file_draws, file_entropy, n_samps_S,
                   entropy_interval, ang_coeff, zero_crossings, zi, endpoints,
                   conv_not_reached_flag, EP, file_endpoint, printed>>
    /\ UNCHANGED <<loadVars, gridVars, priorVars, samplerVars, reentVars,
                 seedVars, parVars>>

\* lines 119-124: the index row is put first and both files are written
SaveReconstruction ==
    /\ pc = "draw"
    /\ j = options.n_draws
    /\ entropy' = <<n_eval_S>> \o entropy
    /\ file_draws' = Some(draws)
    /\ file_entropy' = Some(entropy')
    /\ pc' = "saved"
    /\ UNCHANGED <<options, orig, samples, window_given, warned, j, i, mix, S,
                   n_eval_S, draws, err, n_samps_S, entropy_interval,
                   ang_coeff, zero_crossings, zi, endpoints,
                   conv_not_reached_flag, EP, file_endpoint, printed>>
    /\ UNCHANGED <<loadVars, gridVars, priorVars, samplerVars, reentVars,
                 seedVars, parVars>>

-----------------------------------------------------------------------------
(* main(): aggregation, lines 126-175 *)

\* lines 127-130 (--postprocess): the stored reconstruction is read back
LoadReconstruction ==
    /\ pc = "postprocess"
    /\ file_draws # None /\ file_entropy # None
    /\ draws' = Val(file_draws)
    /\ entropy' = Val(file_entropy)
    /\ pc' = "split"
    /\ UNCHANGED <<options, orig, samples, window_given, warned, j, i, mix, S,
                   n_eval_S, err, file_draws, file_entropy, n_samps_S,
                   entropy_interval, ang_coeff, zero_crossings, zi, endpoints,
                   conv_not_reached_flag, EP, file_endpoint, printed>>
    /\ UNCHANGED <<loadVars, gridVars, priorVars, samplerVars, reentVars,
                 seedVars, parVars>>

\* lines 149-151; n_samps_S[1] raises IndexError on a one-entry trace
SplitEntropy ==
    /\ pc = "split"
    /\ n_samps_S' = entropy[1]
    /\ entropy' = Tail(entropy)
    /\ IF Len(entropy[1]) >= 2
       THEN /\ entropy_interval' = entropy[1][2] - entropy[1][1]
            /\ pc' = "angular"
            /\ UNCHANGED err
       ELSE /\ pc' = "crashed"
            /\ err' = "IndexError"
            /\ UNCHANGED entropy_interval
    /\ UNCHANGED <<options, orig, samples, window_given, warned, j, i, mix, S,
                   n_eval_S, draws, file_draws, file_entropy, ang_coeff,
                   zero_crossings, zi, endpoints, conv_not_reached_flag, EP,
                   file_endpoint, printed>>
    /\ UNCHANGED <<loadVars, gridVars, priorVars, samplerVars, reentVars,
                 seedVars, parVars>>

\* a mutant of ZeroCrossings: the offset of the window is left out
ZeroCrossingsNoWindow(ac, W, k) ==
    LET w == Where(Diff([p \in DOMAIN ac |-> Sign(ac[p])]))
    IN [p \in DOMAIN w |-> w[p] * k]

\* a mutant of ZeroCrossings: the index is left in evaluation units
ZeroCrossingsNoInterval(ac, W, k) ==
    LET w == Where(Diff([p \in DOMAIN ac |-> Sign(ac[p])]))
    IN [p \in DOMAIN w |-> W + w[p]]

\* line 156, one draw:
\* (options.window + np.where(np.diff(np.sign(ac)))[0])*entropy_interval
ZeroCrossings(ac, W, k) ==
    LET w == Where(Diff([p \in DOMAIN ac |-> Sign(ac[p])]))
    IN [p \in DOMAIN w |-> (W + w[p]) * k]

\* lines 154-158
ComputeZeroCrossings ==
    /\ pc = "angular"
    /\ ang_coeff' = [r \in DOMAIN entropy |->
                        compute_angular_coefficients(entropy[r], Val(options.window))]
    /\ zero_crossings' = [r \in DOMAIN entropy |->
                             ZeroCrossings(ang_coeff'[r], Val(options.window),
                                           entropy_interval)]
    /\ endpoints' = <<>>
    /\ conv_not_reached_flag' = FALSE
    /\ zi' = 1
    /\ pc' = "endpoints"
    /\ UNCHANGED <<options, orig, samples, window_given, warned, j, i, mix, S,
                   n_eval_S, draws, entropy, err, file_draws, file_entropy,
                   n_samps_S, entropy_interval, EP, file_endpoint, printed>>
    /\ UNCHANGED <<loadVars, gridVars, priorVars, samplerVars, reentVars,
                 seedVars, parVars>>

\* zc[options.zero_crossings] does not raise IndexError (0-based index)
HasEndpoint(zc, Z) == Z < Len(zc)

\* zc[options.zero_crossings]
EndpointOf(zc, Z) == zc[Z + 1]

\* lines 159-163, one iteration
CollectEndpoint ==
    /\ pc = "endpoints"
    /\ zi <= Len(zero_crossings)
    /\ IF HasEndpoint(zero_crossings[zi], options.zero_crossings)
       THEN /\ endpoints' = Append(endpoints,
                                   EndpointOf(zero_crossings[zi], options.zero_crossings))
            /\ UNCHANGED conv_not_reached_flag
       ELSE /\ conv_not_reached_flag' = TRUE
            /\ UNCHANGED endpoints
    /\ zi' = zi + 1
    /\ UNCHANGED <<options, orig, samples, window_given, warned, pc, j, i, mix,
                   S, n_eval_S, draws, entropy, err, file_draws, file_entropy,
                   n_samps_S, entropy_interval, ang_coeff, zero_crossings, EP,
                   file_endpoint, printed>>
    /\ UNCHANGED <<loadVars, gridVars, priorVars, samplerVars, reentVars,
                 seedVars, parVars>>

\* a mutant of MeanEndpoint: the sum is divided by the number of all draws
MeanOverAllDraws(e) == Sum(e) \div Len(zero_crossings)

\* int(np.mean(endpoints)): the mean of non-negative integers, truncated
MeanEndpoint(e) == Sum(e) \div Len(e)

\* a mutant of NotReached: a number is made up
NotReachedZero == Some(0)

\* line 173: EP when no draw gave an endpoint
NotReached == None

\* lines 164-175
Report ==
    /\ pc = "endpoints"
    /\ zi > Len(zero_crossings)
    /\ IF Len(endpoints) # 0
       THEN /\ EP' = Some(MeanEndpoint(endpoints))
            /\ file_endpoint' = Some(MeanEndpoint(endpoints))
            /\ printed' = [text |-> "Average number of samples required for convergence",
                            number |-> Some(MeanEndpoint(endpoints)),
                            warning |-> conv_not_reached_flag]
       ELSE /\ EP' = NotReached
            /\ printed' = [text |-> "Convergence not reached yet",
                            number |-> None, warning |-> FALSE]
            /\ UNCHANGED file_endpoint
    /\ pc' = "done"
    /\ UNCHANGED <<options, orig, samples, window_given, warned, j, i, mix, S,
                   n_eval_S, draws, entropy, err, file_draws, file_entropy,
                   n_samps_S, entropy_interval, ang_coeff, zero_crossings, zi,
                   endpoints, conv_not_reached_flag>>
    /\ UNCHANGED <<loadVars, gridVars, priorVars, samplerVars, reentVars,
                 seedVars, parVars>>

-----------------------------------------------------------------------------
(* load.py: redshifts of a batch of luminosity distances, lines 13-26 and  *)
(* 167-210 (the same statements are at lines 212-250 for text files)       *)

\* scipy.optimize.newton(objective, 1.0, args=(omega, dl)) returns a root
\* or raises RuntimeError when the iteration does not converge
NewtonConverges(dl) == dl \notin nonconv

\* _find_redshift(omega, dl) when newton converges: the root z of
\* dl - omega.LuminosityDistance_double(z)
_find_redshift(dl) == [root_of |-> dl]

\* line 172, one element of [_find_redshift(omega, l) for l in LD]; an
\* exception of newton leaves the comprehension and the two loaders
FindRedshift ==
    /\ lpc = "redshift"
    /\ li <= Len(LD)
    /\ IF NewtonConverges(LD[li])
       THEN /\ z' = Append(z, _find_redshift(LD[li]))
            /\ li' = li + 1
            /\ UNCHANGED lpc
       ELSE /\ lpc' = "raised"
            /\ UNCHANGED <<z, li>>
    /\ UNCHANGED <<LD, nonconv, par, load_result>>
    /\ UNCHANGED <<diagVars, gridVars, priorVars, samplerVars, reentVars,
                 seedVars, parVars>>

\* lines 178-210 with one parameter asked for and no downsampling
SamplesOf(p, zs, ld) == IF p = "z" THEN zs ELSE ld

ReturnSamples ==
    /\ lpc = "redshift"
    /\ li > Len(LD)
    /\ load_result' = Some(SamplesOf(par, z, LD))
    /\ lpc' = "returned"
    /\ UNCHANGED <<LD, nonconv, par, li, z>>
    /\ UNCHANGED <<diagVars, gridVars, priorVars, samplerVars, reentVars,
                 seedVars, parVars>>

-----------------------------------------------------------------------------
(* utils.py: recursive_grid, lines 16-42 *)

\* np.linspace(a, b, n+2)[1:-1]: the n interior points a + q(b-a)/(n+1)
InteriorPoints(a, b, n) == [q \in 1..n |-> <<a * (n + 1) + q * (b - a), n + 1>>]

\* d[1]-d[0] for two points of one linspace (same denominator)
Spacing(d) == <<d[2][1] - d[1][1], d[1][2]>>

Raised == [raised |-> TRUE, grid |-> <<>>, diff |-> <<>>]

\* for di in d: for gi in grid_nm1: grid.append([di,*gi])
Product(d, g) ==
    [q \in 1..(Len(d) * Len(g)) |->
        <<d[((q - 1) \div Len(g)) + 1]>> \o g[((q - 1) % Len(g)) + 1]]

\* d[1] raises IndexError when d has fewer than two points
RECURSIVE recursive_grid(_, _)
recursive_grid(bounds, n_pts) ==
    LET d == InteriorPoints(bounds[1][1], bounds[1][2], n_pts[1])
    IN IF Len(bounds) = 1
       THEN IF Len(d) < 2 THEN Raised
            ELSE [raised |-> FALSE,
                  grid |-> [q \in 1..Len(d) |-> <<d[q]>>],
                  diff |-> <<Spacing(d)>>]
       ELSE LET r == recursive_grid(Tail(bounds), Tail(n_pts))
            IN IF r.raised THEN Raised
               ELSE IF Len(d) < 2 THEN Raised
               ELSE [raised |-> FALSE,
                     grid |-> Product(d, r.grid),
                     diff |-> Append(r.diff, Spacing(d))]

\* a mutant of CallRecursiveGrid: a failed call returns an empty grid
CallRecursiveGridReturnsEmpty ==
    /\ gpc = "call"
    /\ LET r == recursive_grid(g_bounds, g_n_pts)
       IN /\ gpc' = "returned"
          /\ g_result' = Some(<<r.grid, r.diff>>)
    /\ UNCHANGED <<g_bounds, g_n_pts>>
    /\ UNCHANGED <<diagVars, loadVars, priorVars, samplerVars, reentVars,
                 seedVars, parVars>>

CallRecursiveGrid ==
    /\ gpc = "call"
    /\ LET r == recursive_grid(g_bounds, g_n_pts)
       IN IF r.raised
          THEN /\ gpc' = "raised"
               /\ UNCHANGED g_result
          ELSE /\ gpc' = "returned"
               /\ g_result' = Some(<<r.grid, r.diff>>)
    /\ UNCHANGED <<g_bounds, g_n_pts>>
    /\ UNCHANGED <<diagVars, loadVars, priorVars, samplerVars, reentVars,
                 seedVars, parVars>>

-----------------------------------------------------------------------------
(* utils.py: get_priors, lines 70-150 *)

\* Working-space standard deviations are counted in tenths and variances,
\* covariances and k in hundredths, so that 0.2 is 2, 0.2**2 is 4 and 1e-2
\* is 1.  A matrix entry is an exact fraction <<num, den>>.

max_std == 2              \* np.minimum(diag, 0.2)
default_std == 2          \* np.identity(dim)*0.2**2
default_k == 1            \* k_out = 1e-2
cov_divisor == 9          \* np.cov(probit_samples.T)/9
mc_draws == 10000         \* .rvs(10000)

Min(a, b) == IF a <= b THEN a ELSE b

\* np.sqrt of a perfect square
Sqrt(x) == CHOOSE r \in 0..x : r * r = x

\* np.identity(dim)*v
Identity(dim, v) ==
    [a \in 1..dim |-> [b \in 1..dim |-> IF a = b THEN <<v, 1>> ELSE <<0, 1>>]]

\* the map to the working space, kept symbolic
transform_to_probit(x, bounds) == [probit_of |-> x, within |-> bounds]

DfOutAboveDim(df, dim) ==
    IF df # None /\ Val(df) > dim THEN Val(df) ELSE dim + 2

\* if df is not None and df > dim+2: df_out = df; else: df_out = dim+2
DfOut(df, dim) ==
    IF df # None /\ Val(df) > dim + 2 THEN Val(df) ELSE dim + 2

MeanInsideClosed(bounds, mean) ==
    \A a \in DOMAIN bounds : bounds[a][1] <= mean[a] /\ mean[a] <= bounds[a][2]

\* np.prod(bounds[:,0] < mean) & np.prod(mean < bounds[:,1])
MeanInside(bounds, mean) ==
    \A a \in DOMAIN bounds : bounds[a][1] < mean[a] /\ mean[a] < bounds[a][2]

\* lines 111-119
MuOut(a) ==
    IF a.mean # None THEN transform_to_probit(Val(a.mean), a.bounds)
    ELSE IF a.samples # None THEN [mean_of |-> Val(a.samples)]
    ELSE Zeros(Len(a.bounds))

NoClamp(d) == d

\* stds = np.minimum(diag, 0.2)
ClampStd(d) == Min(d, max_std)

\* lines 129-132 for the covariance C of the transformed samples
ClampedCov(C) ==
    LET L    == [a \in DOMAIN C |-> [b \in DOMAIN C |-> C[a][b] \div cov_divisor]]
        diag == [a \in DOMAIN C |-> Sqrt(L[a][a])]
        stds == [a \in DOMAIN C |-> ClampStd(diag[a])]
    IN [a \in DOMAIN C |-> [b \in DOMAIN C |->
           <<L[a][b] * (stds[a] * stds[b]), diag[a] * diag[b]>>]]

CovSourceStdFirst(a) ==
    IF a.std # None THEN "std"
    ELSE IF a.cov # None THEN "cov"
    ELSE IF a.samples # None THEN "samples"
    ELSE "default"

\* the branch of lines 121-134 that is taken
CovSource(a) ==
    IF a.cov # None THEN "cov"
    ELSE IF a.std # None THEN "std"
    ELSE IF a.samples # None THEN "samples"
    ELSE "default"

\* lines 121-134: the matrix of the branch; mc is None until line 148
LOut(a) ==
    LET dim == Len(a.bounds)
        src == CovSource(a)
    IN [source |-> src,
        mc     |-> None,
        matrix |-> CASE src = "cov"     -> Val(a.cov)
                     [] src = "std"     -> Identity(dim, Val(a.std) * Val(a.std))
                     [] src = "samples" -> ClampedCov(Val(a.samples).cov)
                     [] OTHER           -> Identity(dim, default_std * default_std)]

KOutDefault(k) == default_k

\* if k is not None: k_out = k; else: k_out = 1e-2
KOut(k) == IF k # None THEN Val(k) ELSE default_k

\* line 146: the draws strictly inside the bounds; none can be when a
\* dimension has min >= max
KeptCounts(bounds) ==
    IF \E a \in DOMAIN bounds : bounds[a][1] >= bounds[a][2]
    THEN {0}
    ELSE {0, 1, 2, mc_draws}

\* np.cov of fewer than two observations is all NaN
IsNaN(L) == L.mc # None /\ Val(L.mc) < 2

\* lines 97-139
ResolvePriors ==
    /\ ppc = "call"
    /\ IF p_args.mean # None /\ ~MeanInside(p_args.bounds, Val(p_args.mean))
       THEN /\ ppc' = "raised"
            /\ UNCHANGED <<df_out, draw_flag, mu_out, L_out, k_out>>
       ELSE /\ df_out' = DfOut(p_args.df, Len(p_args.bounds))
            /\ mu_out' = MuOut(p_args)
            /\ L_out' = LOut(p_args)
            /\ draw_flag' = (CovSource(p_args) \in {"cov", "std"})
            /\ k_out' = KOut(p_args.k)
            /\ ppc' = "resolved"
    /\ UNCHANGED <<p_args, p_result>>
    /\ UNCHANGED <<diagVars, loadVars, gridVars, samplerVars, reentVars,
                 seedVars, parVars>>

\* lines 141-148: L_out becomes np.cov of the transformed draws of
\* N(centre of the bounds, L_out) that fall inside the bounds
ReEstimate ==
    /\ ppc = "resolved"
    /\ draw_flag
    /\ \E kept \in KeptCounts(p_args.bounds) :
          L_out' = [L_out EXCEPT !.mc = Some(kept)]
    /\ ppc' = "estimated"
    /\ UNCHANGED <<p_args, df_out, draw_flag, mu_out, k_out, p_result>>
    /\ UNCHANGED <<diagVars, loadVars, gridVars, samplerVars, reentVars,
                 seedVars, parVars>>

\* line 150
ReturnPriors ==
    /\ \/ ppc = "resolved" /\ ~draw_flag
       \/ ppc = "estimated"
    /\ p_result' = Some(<<k_out, L_out, df_out, mu_out>>)
    /\ ppc' = "returned"
    /\ UNCHANGED <<p_args, df_out, draw_flag, mu_out, L_out, k_out>>
    /\ UNCHANGED <<diagVars, loadVars, gridVars, samplerVars, reentVars,
                 seedVars, parVars>>

-----------------------------------------------------------------------------
(* utils.py: rejection_sampler, lines 44-68 *)

\* The interval is cut into its integer points: they stand for the probe
\* points of np.linspace(bounds[0], bounds[1], 1000) and for the values
\* that np.random.uniform(bounds[0], bounds[1]) can take.
Points(bounds) == bounds[1]..bounds[2]

\* selfunc = lambda x: 1 when no selection function is given
Sel(a, x) == IF a.selfunc = None THEN 1 ELSE Val(a.selfunc)[x]

\* f(x)*selfunc(x)
Probs(a, x) == a.f[x] * Sel(a, x)

MaxOf(A) == CHOOSE m \in A : \A x \in A : x <= m

\* top = np.max(f(x)*selfunc(x))
Top(a) == MaxOf({Probs(a, x) : x \in Points(a.bounds)})

\* np.random.uniform(0, top) draws from [0, top), and is 0 when top is 0
Heights(t) == IF t = 0 THEN {0} ELSE 0..(t - 1)

AcceptsAbove(height, prob) == height > prob

\* h < probs
Accepts(height, prob) == height < prob

\* a mutant of Accepted: every candidate is kept
AcceptedAll(a, p, hh) == p

\* pts[np.where(h < probs)]
Accepted(a, p, hh) ==
    LET cand == [q \in DOMAIN p |-> <<p[q], hh[q]>>]
        kept == SelectSeq(cand, LAMBDA c : Accepts(c[2], Probs(a, c[1])))
    IN [q \in DOMAIN kept |-> kept[q][1]]

NoTruncate(s, n) == s

\* np.array(samples).flatten()[:n_draws]
Truncate(s, n) == SubSeq(s, 1, Min(n, Len(s)))

\* lines 57-62
StartSampler ==
    /\ rpc = "call"
    /\ top' = Top(r_args)
    /\ r_samples' = <<>>
    /\ rpc' = "loop"
    /\ UNCHANGED <<r_args, pts, h, r_result>>
    /\ UNCHANGED <<diagVars, loadVars, gridVars, priorVars, reentVars,
                 seedVars, parVars>>

\* lines 63-67: one iteration of the while loop
DrawBatch ==
    /\ rpc = "loop"
    /\ Len(r_samples) < r_args.n_draws
    /\ \E p \in [1..r_args.n_draws -> Points(r_args.bounds)],
          hh \in [1..r_args.n_draws -> Heights(top)] :
          /\ pts' = p
          /\ h' = hh
          /\ r_samples' = r_samples \o Accepted(r_args, p, hh)
    /\ UNCHANGED <<r_args, top, rpc, r_result>>
    /\ UNCHANGED <<diagVars, loadVars, gridVars, priorVars, reentVars,
                 seedVars, parVars>>

\* line 68 (the loop condition is false)
ReturnDraws ==
    /\ rpc = "loop"
    /\ ~(Len(r_samples) < r_args.n_draws)
    /\ r_result' = Some(Truncate(r_samples, r_args.n_draws))
    /\ rpc' = "returned"
    /\ UNCHANGED <<r_args, top, r_samples, pts, h>>
    /\ UNCHANGED <<diagVars, loadVars, gridVars, priorVars, reentVars,
                 seedVars, parVars>>

\* an iteration in which at least one candidate is accepted
AcceptingBatch == DrawBatch /\ Len(r_samples') > Len(r_samples)

-----------------------------------------------------------------------------
(* utils.py: rejection_sampler called twice in one process, lines 44-68.   *)
(* np.random.uniform draws from the generator of the numpy module, which   *)
(* every call in the process shares: a seeded generator is a fixed stream  *)
(* of values and its state is the position in that stream.                 *)

StreamPeriod == 4     \* the stream repeats after this many values

RawValues == {0, 1}   \* a raw value u of [0, 1): near 0, near 1

\* the next n values of the generator in state pos
NextValues(n, pos) == [q \in 1..n |-> stream[(pos + q - 1) % StreamPeriod]]

\* np.random.uniform(bounds[0], bounds[1]) for the raw value u
PointOf(bounds, u) == bounds[1] + u * (bounds[2] - bounds[1])

\* np.random.uniform(0, top) for the raw value u
HeightOf(t, u) == IF t = 0 THEN 0 ELSE u * (t - 1)

\* lines 64-67 with the generator in state pos: what the iteration accepts
BatchAt(a, t, pos) ==
    LET n  == a.n_draws
        p  == [q \in 1..n |-> PointOf(a.bounds, NextValues(n, pos)[q])]
        hh == [q \in 1..n |-> HeightOf(t, NextValues(n, pos + n)[q])]
    IN Accepted(a, p, hh)

\* the state of the generator after one iteration of a call for n samples
Advance(n, pos) == (pos + 2 * n) % StreamPeriod

\* lines 57-62
InterleavedStart ==
    /\ \E c \in DOMAIN calls :
          /\ calls[c].pc = "call"
          /\ calls' = [calls EXCEPT ![c].top = Top(calls[c].args),
                                    ![c].samples = <<>>,
                                    ![c].start = rng,
                                    ![c].pc = "loop"]
    /\ UNCHANGED <<stream, rng>>
    /\ UNCHANGED <<diagVars, loadVars, gridVars, priorVars, samplerVars,
                   seedVars, parVars>>

\* lines 63-67: one iteration of one of the calls
InterleavedBatch ==
    /\ \E c \in DOMAIN calls :
          /\ calls[c].pc = "loop"
          /\ Len(calls[c].samples) < calls[c].args.n_draws
          /\ calls' = [calls EXCEPT ![c].samples =
                          @ \o BatchAt(calls[c].args, calls[c].top, rng)]
          /\ rng' = Advance(calls[c].args.n_draws, rng)
    /\ UNCHANGED stream
    /\ UNCHANGED <<diagVars, loadVars, gridVars, priorVars, samplerVars,
                   seedVars, parVars>>

\* line 68
InterleavedReturn ==
    /\ \E c \in DOMAIN calls :
          /\ calls[c].pc = "loop"
          /\ ~(Len(calls[c].samples) < calls[c].args.n_draws)
          /\ calls' = [calls EXCEPT
                          ![c].result = Some(Truncate(calls[c].samples,
                                                      calls[c].args.n_draws)),
                          ![c].pc = "returned"]
    /\ UNCHANGED <<stream, rng>>
    /\ UNCHANGED <<diagVars, loadVars, gridVars, priorVars, samplerVars,
                   seedVars, parVars>>

-----------------------------------------------------------------------------
(* entropy.py main(), lines 103-156, executed twice with one seed.  The    *)
(* shuffle of line 111 and the Monte Carlo estimate of the entropy read    *)
(* the generator of the numpy module; a seed fixes the stream of values    *)
(* that this generator yields, and an execution starts at its beginning.   *)

SeedValues == {0, 1, 2}   \* raw values of the generator

\* the value that the generator yields at position pos of its stream
ValueAt(pos) == seeded.seed[pos % StreamPeriod]

Swap(s, a, b) == [s EXCEPT ![a] = s[b], ![b] = s[a]]

\* np.random.shuffle is a Fisher-Yates pass: for each row q from the last
\* down to the second, the row is exchanged with row random_interval(q)
RECURSIVE ShuffleFrom(_, _, _)
ShuffleFrom(s, q, pos) ==
    IF q <= 1 THEN s
    ELSE ShuffleFrom(Swap(s, q, (ValueAt(pos) % q) + 1), q - 1, pos + 1)

\* line 111 with the generator at position pos
SeededShuffle(s, pos) == ShuffleFrom(s, Len(s), pos)

\* the number of values that line 111 takes from the generator
ShuffleReads(s) == IF Len(s) = 0 THEN 0 ELSE Len(s) - 1

\* compute_entropy_single_draw(mix): a Monte Carlo estimate, a function of
\* the state of the estimator (the points in the order of their ingestion)
\* and of the value u that the generator yields
compute_entropy_single_draw(m, u) ==
    IF (Sum([p \in DOMAIN m |-> p * m[p]]) + u) % 2 = 0 THEN 0 ELSE 2

\* a mutant of SeededStartDraw: the shuffle reads a generator that the seed
\* does not reach (seeded from the operating system)
UnseededStartDraw ==
    /\ \E x \in DOMAIN execs :
          LET r == execs[x]
              o == seeded.options
          IN /\ r.pc = "draw"
             /\ r.j < o.n_draws
             /\ \E t \in Shuffles(r.samples) :
                   execs' = [execs EXCEPT ![x] = [r EXCEPT
                      !.S = Zeros(TraceSize(Len(r.samples), o.entropy_interval)),
                      !.n_eval_S = Zeros(TraceSize(Len(r.samples), o.entropy_interval)),
                      !.mix = initialise,
                      !.samples = t,
                      !.i = 0,
                      !.pc = "ingest"]]
    /\ UNCHANGED seeded
    /\ UNCHANGED <<diagVars, loadVars, gridVars, priorVars, samplerVars,
                   reentVars, parVars>>

\* lines 107-111: a new draw starts
SeededStartDraw ==
    /\ \E x \in DOMAIN execs :
          LET r == execs[x]
              o == seeded.options
          IN /\ r.pc = "draw"
             /\ r.j < o.n_draws
             /\ execs' = [execs EXCEPT ![x] = [r EXCEPT
                   !.S = Zeros(TraceSize(Len(r.samples), o.entropy_interval)),
                   !.n_eval_S = Zeros(TraceSize(Len(r.samples), o.entropy_interval)),
                   !.mix = initialise,
                   !.samples = SeededShuffle(r.samples, r.gen),
                   !.gen = (r.gen + ShuffleReads(r.samples)) % StreamPeriod,
                   !.i = 0,
                   !.pc = "ingest"]]
    /\ UNCHANGED seeded
    /\ UNCHANGED <<diagVars, loadVars, gridVars, priorVars, samplerVars,
                   reentVars, parVars>>

\* lines 112-116: one sample is ingested; at a multiple of the interval the
\* entropy is estimated and stored, IndexError past the end of S
SeededAddNewPoint ==
    /\ \E x \in DOMAIN execs :
          LET r == execs[x]
              k == seeded.options.entropy_interval
              slot == (r.i \div k) + 1
              m == add_new_point(r.mix, NextSample(r.samples, r.i))
              next_gen == (r.gen + 1) % StreamPeriod
          IN /\ r.pc = "ingest"
             /\ r.i < Len(r.samples)
             /\ execs' = [execs EXCEPT ![x] =
                   IF r.i % k # 0
                   THEN [r EXCEPT !.mix = m, !.i = r.i + 1]
                   ELSE IF slot <= Len(r.S)
                   THEN [r EXCEPT
                           !.mix = m,
                           !.S = [r.S EXCEPT ![slot] =
                                    compute_entropy_single_draw(m, ValueAt(r.gen))],
                           !.n_eval_S = [r.n_eval_S EXCEPT ![slot] = r.i],
                           !.gen = next_gen,
                           !.i = r.i + 1]
                   ELSE [r EXCEPT !.mix = m, !.gen = next_gen,
                                  !.pc = "crashed", !.err = "IndexError"]]
    /\ UNCHANGED seeded
    /\ UNCHANGED <<diagVars, loadVars, gridVars, priorVars, samplerVars,
                   reentVars, parVars>>

\* lines 117-118: the draw is over
SeededFinishDraw ==
    /\ \E x \in DOMAIN execs :
          LET r == execs[x]
          IN /\ r.pc = "ingest"
             /\ r.i = Len(r.samples)
             /\ execs' = [execs EXCEPT ![x] = [r EXCEPT
                   !.draws = Append(r.draws, build_mixture(r.mix)),
                   !.entropy = Append(r.entropy, r.S),
                   !.j = r.j + 1,
                   !.pc = "draw"]]
    /\ UNCHANGED seeded
    /\ UNCHANGED <<diagVars, loadVars, gridVars, priorVars, samplerVars,
                   reentVars, parVars>>

\* lines 119-124 and 149-156: the traces are stored with the index row
\* first, the interval is read back from the index row (IndexError on a
\* one-entry row) and the sign changes of the angular coefficients are
\* located
SeededCrossings ==
    /\ \E x \in DOMAIN execs :
          LET r == execs[x]
              o == seeded.options
              stored == <<r.n_eval_S>> \o r.entropy
              index_row == stored[1]
              traces == Tail(stored)
              interval == index_row[2] - index_row[1]
          IN /\ r.pc = "draw"
             /\ r.j = o.n_draws
             /\ execs' = [execs EXCEPT ![x] =
                   IF Len(index_row) >= 2
                   THEN [r EXCEPT
                           !.saved = Some(stored),
                           !.entropy = traces,
                           !.zero_crossings =
                               [d \in DOMAIN traces |->
                                   ZeroCrossings(
                                      compute_angular_coefficients(traces[d], o.window),
                                      o.window, interval)],
                           !.pc = "done"]
                   ELSE [r EXCEPT !.saved = Some(stored), !.entropy = traces,
                                  !.pc = "crashed", !.err = "IndexError"]]
    /\ UNCHANGED seeded
    /\ UNCHANGED <<diagVars, loadVars, gridVars, priorVars, samplerVars,
                   reentVars, parVars>>

-----------------------------------------------------------------------------
(* par_probability_density.py: the actor `worker` (lines 18-31) and the    *)
(* dispatch of the draws in main() (lines 128-138).  Arrays live in `heap` *)
(* under the name of their owner; a worker refers to its array by that     *)
(* name.  density_from_samples is what entropy.py:110-117 spells out:      *)
(* initialise, shuffle the array in place, ingest every row, build.        *)

ParallelCounts == {1, 2}   \* options.n_parallel

\* a mutant of OwnArray: self.samples = samples, the array of the caller
CallerArray(w) == 0

\* line 27, np.copy(samples): a new array that only worker w refers to
OwnArray(w) == w

\* lines 20-28 (worker.remote(...) of line 128): the actor is constructed
CreateWorker ==
    /\ \E w \in DOMAIN workers :
          /\ workers[w].pc = "new"
          /\ heap' = [heap EXCEPT ![OwnArray(w)] = heap[0]]
          /\ workers' = [workers EXCEPT ![w] =
                [samples |-> OwnArray(w), mixture |-> initialise, i |-> 0,
                 pc |-> "idle", result |-> None]]
    /\ UNCHANGED <<pending, par_draws, par_file>>
    /\ UNCHANGED <<diagVars, loadVars, gridVars, priorVars, samplerVars,
                   reentVars, seedVars>>

\* line 135, pool.map_unordered: a draw is submitted to an actor that has
\* no call in progress
SubmitDraw ==
    /\ pending > 0
    /\ \E w \in DOMAIN workers :
          /\ workers[w].pc = "idle"
          /\ workers' = [workers EXCEPT ![w].pc = "called"]
    /\ pending' = pending - 1
    /\ UNCHANGED <<heap, par_draws, par_file>>
    /\ UNCHANGED <<diagVars, loadVars, gridVars, priorVars, samplerVars,
                   reentVars, seedVars>>

\* lines 30-31, draw_sample: density_from_samples(self.samples) starts,
\* the estimator is reset and the array is shuffled in place
WorkerShuffle ==
    /\ \E w \in DOMAIN workers :
          /\ workers[w].pc = "called"
          /\ \E t \in Shuffles(heap[workers[w].samples]) :
                heap' = [heap EXCEPT ![workers[w].samples] = t]
          /\ workers' = [workers EXCEPT ![w].mixture = initialise,
                                        ![w].i = 0,
                                        ![w].pc = "ingest"]
    /\ UNCHANGED <<pending, par_draws, par_file>>
    /\ UNCHANGED <<diagVars, loadVars, gridVars, priorVars, samplerVars,
                   reentVars, seedVars>>

\* density_from_samples: the next row of the array is ingested
WorkerAddNewPoint ==
    /\ \E w \in DOMAIN workers :
          /\ workers[w].pc = "ingest"
          /\ workers[w].i < Len(heap[workers[w].samples])
          /\ workers' = [workers EXCEPT
                ![w].mixture = add_new_point(workers[w].mixture,
                                  NextSample(heap[workers[w].samples],
                                             workers[w].i)),
                ![w].i = workers[w].i + 1]
    /\ UNCHANGED <<heap, pending, par_draws, par_file>>
    /\ UNCHANGED <<diagVars, loadVars, gridVars, priorVars, samplerVars,
                   reentVars, seedVars>>

\* density_from_samples returns the mixture; draw_sample returns it
WorkerReturn ==
    /\ \E w \in DOMAIN workers :
          /\ workers[w].pc = "ingest"
          /\ workers[w].i = Len(heap[workers[w].samples])
          /\ workers' = [workers EXCEPT
                ![w].result = Some(build_mixture(workers[w].mixture)),
                ![w].pc = "returned"]
    /\ UNCHANGED <<heap, pending, par_draws, par_file>>
    /\ UNCHANGED <<diagVars, loadVars, gridVars, priorVars, samplerVars,
                   reentVars, seedVars>>

\* lines 135-136: main() receives a finished draw, in the order of
\* completion, and the actor is free again
CollectDraw ==
    /\ \E w \in DOMAIN workers :
          /\ workers[w].pc = "returned"
          /\ par_draws' = Append(par_draws, Val(workers[w].result))
          /\ workers' = [workers EXCEPT ![w].result = None,
                                        ![w].pc = "idle"]
    /\ UNCHANGED <<heap, pending, par_file>>
    /\ UNCHANGED <<diagVars, loadVars, gridVars, priorVars, samplerVars,
                   reentVars, seedVars>>

\* lines 137-138: every draw is in, the reconstruction is saved
SaveDensity ==
    /\ pending = 0
    /\ \A w \in DOMAIN workers : workers[w].pc \in {"new", "idle"}
    /\ par_file = None
    /\ par_file' = Some(par_draws)
    /\ UNCHANGED <<heap, workers, pending, par_draws>>
    /\ UNCHANGED <<diagVars, loadVars, gridVars, priorVars, samplerVars,
                   reentVars, seedVars>>

-----------------------------------------------------------------------------
(* Specifications *)

\* The options: the window is not given or given in samples, at most the
\* number of samples.
Options(n, pp) ==
    {o \in [n_draws : DrawCounts, entropy_interval : 1..MaxInterval,
            window : {None} \cup {Some(w) : w \in 1..(IF n < MaxWindow THEN n ELSE MaxWindow)},
            zero_crossings : 1..MaxZ, postprocess : {pp}] : TRUE}

InitDiag ==
    /\ samples = orig
    /\ window_given = 0
    /\ warned = FALSE
    /\ pc = "window"
    /\ j = 0 /\ i = 0
    /\ mix = <<>> /\ S = <<>> /\ n_eval_S = <<>>
    /\ draws = <<>>
    /\ entropy = <<>>
    /\ err = "none"
    /\ n_samps_S = <<>>
    /\ entropy_interval = 0
    /\ ang_coeff = <<>>
    /\ zero_crossings = <<>>
    /\ zi = 0
    /\ endpoints = <<>>
    /\ conv_not_reached_flag = FALSE
    /\ EP = None
    /\ file_endpoint = None
    /\ printed = [text |-> "", number |-> None, warning |-> FALSE]

\* main() is not running
IdleDiag ==
    /\ options = [n_draws |-> 1, entropy_interval |-> 1, window |-> None,
                  zero_crossings |-> 1, postprocess |-> FALSE]
    /\ orig = <<>>
    /\ file_draws = None
    /\ file_entropy = None
    /\ InitDiag

\* no load is running
IdleLoad ==
    /\ LD = <<>> /\ nonconv = {} /\ par = "z"
    /\ lpc = "idle" /\ li = 1 /\ z = <<>> /\ load_result = None

\* no grid is being built
IdleGrid ==
    /\ g_bounds = <<>> /\ g_n_pts = <<>> /\ gpc = "idle" /\ g_result = None

\* no prior elicitation is running
IdlePriors ==
    /\ p_args = [bounds |-> <<>>, samples |-> None, mean |-> None,
                 std |-> None, cov |-> None, df |-> None, k |-> None]
    /\ ppc = "idle" /\ df_out = 0 /\ draw_flag = FALSE /\ mu_out = <<>>
    /\ L_out = None /\ k_out = 0 /\ p_result = None

\* no rejection sampling is running
IdleSampler ==
    /\ r_args = [n_draws |-> 0, f |-> <<>>, bounds |-> <<0, 0>>,
                 selfunc |-> None]
    /\ top = 0 /\ r_samples = <<>> /\ pts = <<>> /\ h = <<>>
    /\ rpc = "idle" /\ r_result = None

\* no interleaved calls of the sampler
IdleReent == stream = <<>> /\ rng = 0 /\ calls = <<>>

\* no seeded executions of the diagnostic
IdleSeeded == seeded = <<>> /\ execs = <<>>

\* no parallel reconstruction
IdleParallel ==
    /\ heap = <<>> /\ workers = <<>> /\ pending = 0 /\ par_draws = <<>>
    /\ par_file = None

\* The reconstruction branch of main(): samples loaded, nothing stored yet.
InitRecon ==
    /\ \E n \in 1..MaxN :
          /\ orig = [p \in 1..n |-> p]
          /\ options \in Options(n, FALSE)
    /\ file_draws = None
    /\ file_entropy = None
    /\ InitDiag
    /\ IdleLoad
    /\ IdleGrid
    /\ IdlePriors
    /\ IdleSampler
    /\ IdleReent
    /\ IdleSeeded
    /\ IdleParallel

NextRecon ==
    \/ EntropyWindow
    \/ StartDraw
    \/ AddNewPoint
    \/ AddNewPointRaises
    \/ FinishDraw
    \/ SaveReconstruction

SpecRecon == InitRecon /\ [][NextRecon]_vars

\* The --postprocess branch of main(): the files of an earlier
\* reconstruction with the same samples and options are on disk.  Such a
\* reconstruction ended only if the interval divides the number of samples.
StoredTraces(m, k, d) ==
    {<<[p \in 1..m |-> (p - 1) * k]>> \o t : t \in [1..d -> [1..m -> EntropyValues]]}

InitAggregate ==
    /\ \E m \in 1..MaxTrace, k \in 1..MaxInterval :
          /\ orig = [p \in 1..(m * k) |-> p]
          /\ options \in {o \in Options(m * k, TRUE) : o.entropy_interval = k}
          /\ file_entropy \in {Some(t) : t \in StoredTraces(m, k, options.n_draws)}
          /\ file_draws = Some([r \in 1..options.n_draws |->
                                   build_mixture(orig)])
    /\ InitDiag
    /\ IdleLoad
    /\ IdleGrid
    /\ IdlePriors
    /\ IdleSampler
    /\ IdleReent
    /\ IdleSeeded
    /\ IdleParallel

NextAggregate ==
    \/ EntropyWindow
    \/ LoadReconstruction
    \/ SplitEntropy
    \/ ComputeZeroCrossings
    \/ CollectEndpoint
    \/ Report

SpecAggregate == InitAggregate /\ [][NextAggregate]_vars

\* The window policy of main() on its own (lines 89-98), with sample counts
\* and windows on both sides of the 200-sample floor.
WindowSampleCounts == {min_window \div 2, min_window, min_window + 1,
                       5 * min_window + 5}
WindowChoices == {1, min_window - 1, min_window, min_window + 1,
                  2 * min_window - 1, 2 * min_window, 3 * min_window}

InitWindow ==
    /\ \E n \in WindowSampleCounts : orig = [p \in 1..n |-> p]
    /\ options \in [n_draws : {1}, entropy_interval : 1..MaxInterval,
                    window : Hints(WindowChoices),
                    zero_crossings : {1}, postprocess : BOOLEAN]
    /\ file_draws = None
    /\ file_entropy = None
    /\ InitDiag
    /\ IdleLoad
    /\ IdleGrid
    /\ IdlePriors
    /\ IdleSampler
    /\ IdleReent
    /\ IdleSeeded
    /\ IdleParallel

NextWindow == EntropyWindow

SpecWindow == InitWindow /\ [][NextWindow]_vars

\* A load of a GW posterior file that holds luminosity distances.
Distances == 1..MaxDistance

SeqsUpTo(A, n) == UNION {[1..m -> A] : m \in 1..n}

InitLoad ==
    /\ LD \in SeqsUpTo(Distances, MaxBatch)
    /\ nonconv \in SUBSET Distances
    /\ par \in {"z", "luminosity_distance"}
    /\ lpc = "redshift" /\ li = 1 /\ z = <<>> /\ load_result = None
    /\ IdleDiag
    /\ IdleGrid
    /\ IdlePriors
    /\ IdleSampler
    /\ IdleReent
    /\ IdleSeeded
    /\ IdleParallel

NextLoad ==
    \/ FindRedshift
    \/ ReturnSamples

SpecLoad == InitLoad /\ [][NextLoad]_vars

\* A call of recursive_grid with valid bounds (min < max in each dimension).
Intervals == {b \in (0..MaxCoord) \X (0..MaxCoord) : b[1] < b[2]}

InitGrid ==
    /\ \E D \in 1..MaxDim :
          /\ g_bounds \in [1..D -> Intervals]
          /\ g_n_pts \in [1..D -> 0..MaxPts]
    /\ gpc = "call" /\ g_result = None
    /\ IdleDiag
    /\ IdleLoad
    /\ IdlePriors
    /\ IdleSampler
    /\ IdleReent
    /\ IdleSeeded
    /\ IdleParallel

NextGrid == CallRecursiveGrid

SpecGrid == InitGrid /\ [][NextGrid]_vars

\* A call of get_priors.  Bounds are valid (min < max) or malformed; the
\* samples are given by the covariance of their image in the working space,
\* whose variances are 9 t^2 hundredths (a standard deviation of 3t tenths).
MaxSpread == 3       \* t: a third of a sample standard deviation, in tenths
MaxMean == 3         \* components of an explicit mean are integers of 0..MaxMean

PriorDims == {1, 2}
PriorIntervals == {<<0, 2>>, <<2, 0>>}
Correlations == {-1, 1}

SampleCovs(D) ==
    {[a \in 1..D |-> [b \in 1..D |->
         IF a = b THEN cov_divisor * t[a] * t[a] ELSE cov_divisor * c]] :
       t \in [1..D -> 1..MaxSpread], c \in Correlations}

InitPriors ==
    /\ \E D \in PriorDims :
          p_args \in [bounds  : [1..D -> PriorIntervals],
                      samples : Hints({[cov |-> C] : C \in SampleCovs(D)}),
                      mean    : Hints([1..D -> 0..MaxMean]),
                      std     : Hints({1}),
                      cov     : Hints({Identity(D, 1)}),
                      df      : Hints((D + 1)..(D + 3)),
                      k       : Hints({5})]
    /\ ppc = "call" /\ df_out = 0 /\ draw_flag = FALSE /\ mu_out = <<>>
    /\ L_out = None /\ k_out = 0 /\ p_result = None
    /\ IdleDiag
    /\ IdleLoad
    /\ IdleGrid
    /\ IdleSampler
    /\ IdleReent
    /\ IdleSeeded
    /\ IdleParallel

NextPriors ==
    \/ ResolvePriors
    \/ ReEstimate
    \/ ReturnPriors

SpecPriors == InitPriors /\ [][NextPriors]_vars

\* A call of rejection_sampler with a density and a selection function that
\* are non-negative on the interval.
MaxDraws == 2        \* n_draws

DensityValues == {0, 1, 2}
SelectionValues == {0, 1}
SamplerIntervals == {<<0, 1>>, <<1, 2>>}

InitSampler ==
    /\ \E b \in SamplerIntervals :
          r_args \in [n_draws : 0..MaxDraws,
                      f       : [Points(b) -> DensityValues],
                      bounds  : {b},
                      selfunc : Hints([Points(b) -> SelectionValues])]
    /\ top = 0 /\ r_samples = <<>> /\ pts = <<>> /\ h = <<>>
    /\ rpc = "call" /\ r_result = None
    /\ IdleDiag
    /\ IdleLoad
    /\ IdleGrid
    /\ IdlePriors
    /\ IdleReent
    /\ IdleSeeded
    /\ IdleParallel

NextSampler ==
    \/ StartSampler
    \/ DrawBatch
    \/ ReturnDraws

SpecSampler == InitSampler /\ [][NextSampler]_vars

\* Fair random draws: an iteration that accepts a candidate has positive
\* probability whenever one exists, so it is not postponed forever.
SpecSamplerFair ==
    /\ InitSampler
    /\ [][NextSampler]_vars
    /\ WF_vars(StartSampler)
    /\ WF_vars(AcceptingBatch)
    /\ WF_vars(ReturnDraws)

\* Two calls of rejection_sampler in one process (two threads, or a caller
\* that interleaves them), both drawing from the generator of the module.
InitInterleaved ==
    /\ stream \in [0..(StreamPeriod - 1) -> RawValues]
    /\ rng = 0
    /\ \E b \in {<<0, 1>>} :
          calls \in [1..2 -> [args    : [n_draws : 1..MaxDraws,
                                         f       : [Points(b) -> DensityValues],
                                         bounds  : {b},
                                         selfunc : {None}],
                              top     : {0},
                              samples : {<<>>},
                              start   : {0},
                              pc      : {"call"},
                              result  : {None}]]
    /\ IdleDiag
    /\ IdleLoad
    /\ IdleGrid
    /\ IdlePriors
    /\ IdleSampler
    /\ IdleSeeded
    /\ IdleParallel

NextInterleaved ==
    \/ InterleavedStart
    \/ InterleavedBatch
    \/ InterleavedReturn

SpecInterleaved == InitInterleaved /\ [][NextInterleaved]_vars

\* Two executions of the reconstruction and of the search for the sign
\* changes, with the same samples, options and seed.  The window is the
\* one that line 98 leaves in options.window.
InitSeeded ==
    /\ \E n \in 2..MaxN :
          seeded \in [orig    : {[p \in 1..n |-> p]},
                      options : [n_draws : DrawCounts,
                                 entropy_interval : 1..MaxInterval,
                                 window : {1}],
                      seed    : [0..(StreamPeriod - 1) -> SeedValues]]
    /\ execs = [x \in 1..2 |->
                  [samples |-> seeded.orig, gen |-> 0, pc |-> "draw",
                   j |-> 0, i |-> 0, mix |-> <<>>, S |-> <<>>,
                   n_eval_S |-> <<>>, draws |-> <<>>, entropy |-> <<>>,
                   err |-> "none", saved |-> None, zero_crossings |-> <<>>]]
    /\ IdleDiag
    /\ IdleLoad
    /\ IdleGrid
    /\ IdlePriors
    /\ IdleSampler
    /\ IdleReent
    /\ IdleParallel

NextSeeded ==
    \/ SeededStartDraw
    \/ SeededAddNewPoint
    \/ SeededFinishDraw
    \/ SeededCrossings

SpecSeeded == InitSeeded /\ [][NextSeeded]_vars

\* The reconstruction of one file by a pool of actors: the samples are
\* loaded, no actor is constructed yet, no draw is submitted yet.
InitParallel ==
    /\ \E n \in 2..MaxN, np \in ParallelCounts :
          /\ heap = [a \in 0..np |-> IF a = 0 THEN [p \in 1..n |-> p] ELSE <<>>]
          /\ workers = [w \in 1..np |->
                          [samples |-> None, mixture |-> <<>>, i |-> 0,
                           pc |-> "new", result |-> None]]
    /\ pending \in DrawCounts
    /\ par_draws = <<>>
    /\ par_file = None
    /\ IdleDiag
    /\ IdleLoad
    /\ IdleGrid
    /\ IdlePriors
    /\ IdleSampler
    /\ IdleReent
    /\ IdleSeeded

NextParallel ==
    \/ CreateWorker
    \/ SubmitDraw
    \/ WorkerShuffle
    \/ WorkerAddNewPoint
    \/ WorkerReturn
    \/ CollectDraw
    \/ SaveDensity

SpecParallel == InitParallel /\ [][NextParallel]_vars

-----------------------------------------------------------------------------
(* Properties of the convergence aggregation (SpecAggregate) *)

\* the draws whose series has at least n zero-crossings, in order
RECURSIVE DrawsWithCrossings(_, _, _)
DrawsWithCrossings(zcs, n, r) ==
    IF r > Len(zcs) THEN <<>>
    ELSE IF Len(zcs[r]) >= n THEN <<r>> \o DrawsWithCrossings(zcs, n, r + 1)
    ELSE DrawsWithCrossings(zcs, n, r + 1)

\* C1 (as claimed): a draw with at least Z zero-crossings contributes the
\* sample index of its Z-th crossing, and a draw is flagged non-converged
\* exactly when it has fewer than Z crossings.
C1_ZthCrossingDecides ==
    pc = "done" =>
        LET Z == options.zero_crossings
            conv == DrawsWithCrossings(zero_crossings, Z, 1)
        IN /\ endpoints = [q \in DOMAIN conv |-> zero_crossings[conv[q]][Z]]
           /\ conv_not_reached_flag =
                 (\E r \in DOMAIN zero_crossings : Len(zero_crossings[r]) < Z)

\* C4: when no draw has the required crossings the outcome is the distinct
\* "not reached" one: EP is None, no endpoint file exists and no number is
\* printed; a number is reported (EP, file, print) only when some draw has
\* at least Z crossings.
C4_NotReachedIsDistinct ==
    pc = "done" =>
        LET Z == options.zero_crossings
            someConverged == \E r \in DOMAIN zero_crossings : Len(zero_crossings[r]) >= Z
        IN /\ ~someConverged =>
                /\ EP = None
                /\ file_endpoint = None
                /\ printed.number = None
                /\ printed.text = "Convergence not reached yet"
           /\ (EP # None \/ file_endpoint # None \/ printed.number # None) =>
                /\ someConverged
                /\ file_endpoint = EP
                /\ printed.number = EP
                /\ printed.text # "Convergence not reached yet"

\* C4 witness: two draws, two crossings required; one draw crossed zero
\* once, no draw twice, and the aggregation reported "not reached".
C4_Witness ==
    /\ pc = "done"
    /\ EP = None
    /\ printed.text = "Convergence not reached yet"
    /\ options.zero_crossings = 2
    /\ Len(zero_crossings) = 2
    /\ \E r \in DOMAIN zero_crossings : Len(zero_crossings[r]) = 1
    /\ \A r \in DOMAIN zero_crossings : Len(zero_crossings[r]) < 2

\* C5 (as claimed): the reported estimate is the arithmetic mean of the
\* Z-th-crossing indices of the draws that have at least Z crossings.
C5_ArithmeticMeanOfZth ==
    pc = "done" =>
        LET Z == options.zero_crossings
            conv == DrawsWithCrossings(zero_crossings, Z, 1)
            zth == [q \in DOMAIN conv |-> zero_crossings[conv[q]][Z]]
        IN Len(conv) > 0 => /\ EP # None
                            /\ Val(EP) * Len(conv) = Sum(zth)

-----------------------------------------------------------------------------
(* Properties of the reconstruction loop (SpecRecon) *)

IsPermutation(s, t) ==
    /\ Len(s) = Len(t)
    /\ \A v \in Range(s) \cup Range(t) :
          Cardinality({p \in DOMAIN s : s[p] = v}) = Cardinality({p \in DOMAIN t : t[p] = v})

\* the positions 0..n-1 that are multiples of the interval
EvalPositions(n, k) == {q \in 0..(n - 1) : q % k = 0}

\* C2 (as claimed): no draw stops on the entropy bookkeeping, and a stored
\* trace has one index and one value per position that is a multiple of the
\* interval, the index being that position.
C2_TraceAtEveryInterval ==
    /\ err # "IndexError"
    /\ pc = "saved" =>
          \A r \in DOMAIN entropy :
             /\ Len(entropy[r]) = Cardinality(EvalPositions(Len(samples), options.entropy_interval))
             /\ \A q \in DOMAIN entropy[1] : entropy[1][q] = (q - 1) * options.entropy_interval

\* C3, states: while a draw ingests, the estimator holds exactly the first
\* i samples of the shuffled order (so it was emptied before the first one,
\* and each sample enters once); every snapshot kept was taken from an
\* estimator that had ingested all N samples; one snapshot per finished draw,
\* n_draws of them at the end.
C3_States ==
    /\ pc = "ingest" => /\ i <= Len(samples)
                        /\ mix = SubSeq(samples, 1, i)
    /\ Len(draws) = j
    /\ \A r \in DOMAIN draws : /\ draws[r].n_pts = Len(orig)
                               /\ draws[r].pts = Range(orig)
    /\ pc = "saved" => /\ Len(draws) = options.n_draws
                       /\ file_draws = Some(draws)

\* C3, steps: a draw goes Idle ("draw") -> Ingesting ("ingest") -> Finalized
\* (back to "draw", one more snapshot); it starts with an empty estimator and
\* a reordering of the samples, ingests the next sample of that order at each
\* step, and is finalized only once all samples are in.
C3_Steps ==
    /\ (pc = "draw" /\ pc' = "ingest") =>
          /\ mix' = <<>> /\ i' = 0
          /\ IsPermutation(samples', orig)
          /\ draws' = draws
    /\ (pc = "ingest" /\ pc' = "ingest") =>
          /\ samples' = samples
          /\ i' = i + 1
          /\ mix' = Append(mix, samples[i + 1])
          /\ draws' = draws
    /\ (pc = "ingest" /\ pc' = "draw") =>
          /\ i = Len(samples)
          /\ Len(draws') = Len(draws) + 1
    /\ pc' # pc =>
          <<pc, pc'>> \in {<<"window", "draw">>, <<"draw", "ingest">>,
                           <<"ingest", "draw">>, <<"ingest", "crashed">>,
                           <<"draw", "saved">>}

\* C3: each reconstruction run follows Idle -> Ingesting -> Finalized as
\* described by C3_States and C3_Steps.
C3_RunLifecycle == []C3_States /\ [][C3_Steps]_vars

\* C3 witness: two draws were finalized and stored, the second one on an
\* order different from the loaded one.
C3_Witness ==
    /\ pc = "saved"
    /\ Len(draws) = 2
    /\ Len(samples) = 3
    /\ samples # orig

\* C6 (as claimed): the sample array keeps its contents in the same order.
C6_SamplesUntouched == samples = orig

\* C6 (amended): the diagnostic writes the sample array only when a draw
\* starts, and only by reordering it: at every time it holds the loaded
\* samples, each as often as loaded, possibly in another order.
C6_OnlyReordered ==
    /\ []IsPermutation(samples, orig)
    /\ [][samples' # samples => (pc = "draw" /\ pc' = "ingest")]_vars

\* C6 witness: after a complete reconstruction the array is in another order
\* than the one loaded.
C6_Witness ==
    /\ pc = "saved"
    /\ samples # orig
    /\ IsPermutation(samples, orig)

\* C9 (as claimed): when a draw fails, the snapshots and traces of the draws
\* finalized before it are kept (they are on disk when main() has ended).
C9_FailureIsLocal ==
    (pc = "crashed" /\ j >= 1) =>
        /\ file_draws # None
        /\ file_entropy # None

-----------------------------------------------------------------------------
(* Properties of the redshift load (SpecLoad) *)

\* C8 (as claimed): a load of a batch in which some root search converges
\* ends by returning, whichever other root searches failed, and the caller
\* gets the redshifts of the distances whose root search converges.
C8_RedshiftFailureIsLocal ==
    (lpc # "redshift" /\ \E q \in DOMAIN LD : NewtonConverges(LD[q])) =>
        /\ lpc = "returned"
        /\ load_result # None
        /\ par = "z" =>
              \A q \in DOMAIN LD :
                 NewtonConverges(LD[q]) =>
                    \E e \in DOMAIN Val(load_result) :
                       Val(load_result)[e] = _find_redshift(LD[q])

-----------------------------------------------------------------------------
(* Properties of recursive_grid (SpecGrid) *)

RECURSIVE Prod(_)
Prod(s) == IF s = <<>> THEN 1 ELSE Head(s) * Prod(Tail(s))

\* the fraction x lies strictly between the integers lo and hi
StrictlyInside(x, lo, hi) == lo * x[2] < x[1] /\ x[1] < hi * x[2]

\* C10 (as claimed): for valid bounds and counts of at least one point per
\* dimension the call returns as many points as the product of the counts,
\* each a D-vector strictly inside the bounds in every coordinate.
C10_GridIsFullProduct ==
    (gpc # "call" /\ \A a \in DOMAIN g_n_pts : g_n_pts[a] >= 1) =>
        /\ gpc = "returned"
        /\ g_result # None
        /\ LET grid == Val(g_result)[1]
           IN /\ Len(grid) = Prod(g_n_pts)
              /\ \A q \in DOMAIN grid :
                    /\ Len(grid[q]) = Len(g_bounds)
                    /\ \A a \in DOMAIN g_bounds :
                          StrictlyInside(grid[q][a], g_bounds[a][1], g_bounds[a][2])

\* C11 (as claimed): when the call returns, the spacing at index a is the
\* spacing of axis a, (max_a - min_a)/(counts[a] + 1), the axis that the
\* a-th coordinate of every grid point runs along.
C11_SpacingsPairedWithAxes ==
    gpc = "returned" =>
        LET diff == Val(g_result)[2]
        IN /\ Len(diff) = Len(g_bounds)
           /\ \A a \in DOMAIN g_bounds :
                 diff[a][1] * (g_n_pts[a] + 1) =
                    (g_bounds[a][2] - g_bounds[a][1]) * diff[a][2]

-----------------------------------------------------------------------------
(* Properties of get_priors (SpecPriors) *)

\* the fields of the returned tuple
ResultK == Val(p_result)[1]
ResultLambda == Val(p_result)[2]
ResultNu == Val(p_result)[3]
ResultMu == Val(p_result)[4]

PriorDim == Len(p_args.bounds)

\* C12: the returned degrees of freedom are the caller's df only if that
\* df is greater than D+2 and are D+2 otherwise, so they always exceed D+1.
C12_DfAboveDimPlusOne ==
    ppc = "returned" =>
        /\ ResultNu > PriorDim + 1
        /\ IF p_args.df # None /\ Val(p_args.df) > PriorDim + 2
           THEN ResultNu = Val(p_args.df)
           ELSE ResultNu = PriorDim + 2

\* a caller's df of D+1 is replaced by D+2
C12_Witness ==
    /\ ppc = "returned"
    /\ p_args.df = Some(PriorDim + 1)
    /\ ResultNu = PriorDim + 2

\* C13: a call with an explicit mean that is not strictly inside the bounds
\* in every component (outside, or exactly on a bound) fails and returns
\* nothing; a mean strictly inside does not fail, and the mean that is
\* returned is the transform of the caller's mean, not a clamped one.
C13_MeanOutsideFails ==
    (p_args.mean # None /\ ppc # "call") =>
        IF \A a \in DOMAIN p_args.bounds :
              /\ p_args.bounds[a][1] < Val(p_args.mean)[a]
              /\ Val(p_args.mean)[a] < p_args.bounds[a][2]
        THEN /\ ppc # "raised"
             /\ ppc = "returned" =>
                   ResultMu = transform_to_probit(Val(p_args.mean), p_args.bounds)
        ELSE /\ ppc = "raised"
             /\ p_result = None

\* a mean with one component inside and one exactly on the upper bound
C13_Witness ==
    /\ ppc = "raised"
    /\ p_args.bounds = <<<<0, 2>>, <<0, 2>>>>
    /\ p_args.mean = Some(<<1, 2>>)

\* C14 (as claimed): a call whose bounds are malformed (min >= max in some
\* dimension) fails with an error and returns no prior parameters.
C14_MalformedBoundsFail ==
    (\E a \in DOMAIN p_args.bounds : p_args.bounds[a][1] >= p_args.bounds[a][2]) =>
        /\ ppc # "returned"
        /\ p_result = None

\* C15 (as claimed): with valid bounds, a covariance re-estimated from
\* fewer than two surviving draws is never returned: the call reports a
\* failure instead.
C15_TooFewSurvivorsFail ==
    (/\ ppc \in {"estimated", "returned"}
     /\ \A a \in DOMAIN p_args.bounds : p_args.bounds[a][1] < p_args.bounds[a][2]
     /\ L_out.mc # None
     /\ Val(L_out.mc) < 2) =>
        /\ ppc # "returned"
        /\ p_result = None

\* C16: whatever the mean hint, the returned covariance comes from cov when
\* cov is given, else from std when std is given, else from the samples
\* when they are given, else from the default; and it is re-estimated by
\* Monte-Carlo draws exactly when it came from cov or std.
C16_CovariancePriority ==
    ppc = "returned" =>
        /\ ResultLambda.source =
              (IF p_args.cov # None THEN "cov"
               ELSE IF p_args.std # None THEN "std"
               ELSE IF p_args.samples # None THEN "samples"
               ELSE "default")
        /\ (ResultLambda.mc # None) <=> (p_args.cov # None \/ p_args.std # None)
        /\ p_args.cov # None => ResultLambda.matrix = Val(p_args.cov)
        /\ (p_args.cov = None /\ p_args.std # None) =>
              ResultLambda.matrix = Identity(PriorDim, Val(p_args.std) * Val(p_args.std))

\* every hint is given: cov wins and the covariance is re-estimated
C16_Witness ==
    /\ ppc = "returned"
    /\ p_args.cov # None /\ p_args.std # None
    /\ p_args.samples # None /\ p_args.mean # None
    /\ ResultLambda.source = "cov"
    /\ ResultLambda.mc = Some(mc_draws)

\* C17: a call with only samples (of positive variance on every axis)
\* returns a covariance whose marginal standard deviations are at most 0.2,
\* exactly 0.2 on each axis whose sample standard deviation divided by 3
\* exceeds 0.2, and whose correlation coefficients are those of the
\* transformed samples (same sign, same square).
C17_SamplesCovarianceClamped ==
    (/\ ppc = "returned"
     /\ p_args.samples # None
     /\ p_args.cov = None /\ p_args.std = None /\ p_args.mean = None) =>
        LET M == ResultLambda.matrix
            C == Val(p_args.samples).cov
            cap == max_std * max_std
        IN \A a \in DOMAIN C :
              /\ M[a][a][2] > 0
              /\ M[a][a][1] <= cap * M[a][a][2]
              /\ C[a][a] > cov_divisor * cap => M[a][a][1] = cap * M[a][a][2]
              /\ \A b \in DOMAIN C :
                    /\ M[a][b][2] > 0
                    /\ Sign(M[a][b][1]) = Sign(C[a][b])
                    /\ M[a][b][1] * M[a][b][1] * M[a][a][2] * M[b][b][2]
                          * C[a][a] * C[b][b]
                       = C[a][b] * C[a][b] * M[a][a][1] * M[b][b][1]
                          * M[a][b][2] * M[a][b][2]

\* two axes, the first with a sample standard deviation of 0.9 (clamped),
\* the second of 0.3 (kept at 0.1), negatively correlated
C17_Witness ==
    /\ ppc = "returned"
    /\ p_args.cov = None /\ p_args.std = None /\ p_args.mean = None
    /\ p_args.samples = Some([cov |-> <<<<81, -9>>, <<-9, 9>>>>])
    /\ ResultLambda.matrix[1][1] = <<36, 9>>
    /\ ResultLambda.matrix[2][2] = <<1, 1>>

NoHints ==
    /\ p_args.samples = None /\ p_args.mean = None /\ p_args.std = None
    /\ p_args.cov = None /\ p_args.df = None /\ p_args.k = None

\* C18: the result is the tuple (k, Lambda, nu, mu) in this order; with no
\* hints at all it is k = 0.01, Lambda = 0.04 times the identity, nu = D+2
\* and mu = the zero vector; a caller's k is returned unchanged.
C18_ResultOrderAndDefaults ==
    ppc = "returned" =>
        /\ Len(Val(p_result)) = 4
        /\ ResultLambda = L_out
        /\ ResultNu = df_out
        /\ ResultMu = mu_out
        /\ p_args.k # None => ResultK = Val(p_args.k)
        /\ p_args.k = None => ResultK = 1
        /\ NoHints =>
              /\ ResultLambda.source = "default"
              /\ ResultLambda.mc = None
              /\ ResultLambda.matrix = Identity(PriorDim, 4)
              /\ ResultNu = PriorDim + 2
              /\ ResultMu = Zeros(PriorDim)

\* a call with two-dimensional bounds and no hints has returned
C18_Witness ==
    /\ ppc = "returned"
    /\ NoHints
    /\ PriorDim = 2
    /\ Val(p_result) =
          <<1, [source |-> "default", mc |-> None, matrix |-> Identity(2, 4)],
            4, <<0, 0>>>>

-----------------------------------------------------------------------------
(* Properties of rejection_sampler (SpecSampler, SpecSamplerFair) *)

\* C19: when the call returns it returns exactly n samples, the first n
\* accepted candidates in the order of their acceptance, each of them
\* within the bounds.
C19_ExactlyFirstNAccepted ==
    rpc = "returned" =>
        LET out == Val(r_result)
        IN /\ Len(out) = r_args.n_draws
           /\ Len(r_samples) >= r_args.n_draws
           /\ \A q \in DOMAIN out :
                 /\ out[q] = r_samples[q]
                 /\ r_args.bounds[1] <= out[q]
                 /\ out[q] <= r_args.bounds[2]

\* the last iteration accepted more candidates than were still missing, so
\* the list holds three accepted points and the first two are returned
C19_Witness ==
    /\ rpc = "returned"
    /\ r_args.n_draws = 2
    /\ Len(r_samples) = 3
    /\ Val(r_result) = <<r_samples[1], r_samples[2]>>
    /\ r_samples[1] # r_samples[2]

\* the call is under way and still lacks samples
Collecting == rpc = "loop" /\ Len(r_samples) < r_args.n_draws

\* some candidate of the interval has a positive density times selection
AcceptPossible ==
    rpc # "idle" /\ \E x \in Points(r_args.bounds) : Probs(r_args, x) > 0

\* C20 (as claimed): for every n >= 0 and every density/selection pair the
\* loop eventually collects n samples under fair random draws; so in every
\* state of the loop that still lacks samples, some candidate and height
\* that can be drawn are accepted.
C20_LoopCanAlwaysProgress ==
    Collecting =>
        \E x \in Points(r_args.bounds), height \in Heights(top) :
           Accepts(height, Probs(r_args, x))

\* C20 (amended): under fair random draws the call returns whenever n is 0
\* or the density times the selection function is positive somewhere on
\* the interval.
C20_TerminatesWhenAcceptable ==
    (rpc = "call" /\ (r_args.n_draws = 0 \/ AcceptPossible))
        ~> (rpc = "returned")

\* a call for two samples has returned although one of the two points has
\* probability zero and the last iteration rejected a candidate
C20_Witness ==
    /\ rpc = "returned"
    /\ r_args.n_draws = 2
    /\ \E x \in Points(r_args.bounds) : Probs(r_args, x) = 0
    /\ \E q \in DOMAIN pts : ~Accepts(h[q], Probs(r_args, pts[q]))

-----------------------------------------------------------------------------
(* Further properties of recursive_grid (SpecGrid) *)

\* C30: the call raises, and returns neither grid nor spacings, exactly
\* when some dimension has fewer than two points, whichever dimension it
\* is; with two or more points in every dimension it returns.
C30_FewerThanTwoPointsRaises ==
    gpc # "call" =>
        IF \E a \in DOMAIN g_n_pts : g_n_pts[a] <= 1
        THEN gpc = "raised" /\ g_result = None
        ELSE gpc = "returned" /\ g_result # None

\* the outer dimension has three points and the inner one a single point,
\* so the raise comes from the recursive call
C30_Witness ==
    /\ gpc = "raised"
    /\ g_n_pts = <<3, 1>>

-----------------------------------------------------------------------------
(* Further properties of rejection_sampler (SpecSampler) *)

\* every accepted and every returned sample has a positive density times
\* selection
C29_States ==
    /\ \A q \in DOMAIN r_samples : Probs(r_args, r_samples[q]) > 0
    /\ rpc = "returned" =>
          \A q \in DOMAIN Val(r_result) : Probs(r_args, Val(r_result)[q]) > 0

\* a step of the loop keeps the list as a prefix of the new list, and every
\* sample it adds is a candidate of that iteration whose height is at least
\* 0 and strictly below its density times selection
C29_Steps ==
    [][rpc = "loop" =>
          /\ Len(r_samples') >= Len(r_samples)
          /\ SubSeq(r_samples', 1, Len(r_samples)) = r_samples
          /\ \A q \in (Len(r_samples) + 1)..Len(r_samples') :
                \E c \in DOMAIN pts' :
                   /\ pts'[c] = r_samples'[q]
                   /\ 0 <= h'[c]
                   /\ h'[c] < Probs(r_args, pts'[c])]_vars

\* C29: every returned sample was accepted with a height of at least 0 and
\* strictly below f(x)*selfunc(x), so it has a strictly positive density
\* times selection, and the list of accepted samples only grows between
\* iterations of the loop.
C29_OnlyAcceptedGrowOnly == []C29_States /\ C29_Steps

\* two samples were returned; the last iteration accepted a candidate with
\* a positive height and rejected a candidate of probability zero
C29_Witness ==
    /\ rpc = "returned"
    /\ Len(Val(r_result)) = 2
    /\ \E c \in DOMAIN pts : h[c] > 0 /\ h[c] < Probs(r_args, pts[c])
    /\ \E c \in DOMAIN pts : Probs(r_args, pts[c]) = 0

-----------------------------------------------------------------------------
(* Further properties of the reconstruction loop (SpecRecon) *)

\* C27: in every state of the run loop the working sample array is a
\* permutation of the loaded samples: it has the same length N and there is
\* a one-to-one reordering of the loaded rows that gives it, so no sample
\* is lost or duplicated.
C27_SamplesArePermutation ==
    /\ Len(samples) = Len(orig)
    /\ \E p \in [DOMAIN orig -> DOMAIN orig] :
          /\ \A a, b \in DOMAIN orig : p[a] = p[b] => a = b
          /\ \A q \in DOMAIN orig : samples[q] = orig[p[q]]

\* the second run is ingesting three samples in an order that differs from
\* the loaded one
C27_Witness ==
    /\ pc = "ingest"
    /\ j = 1
    /\ i = 1
    /\ Len(orig) = 3
    /\ samples # orig

-----------------------------------------------------------------------------
(* Properties of the window policy (SpecWindow) *)

\* C25 (as claimed): once the window is settled the diagnostic proceeds,
\* and the warning has been issued exactly when the effective window, the
\* window divided by the entropy interval, is below 200.
C25_WarningOnEffectiveWindow ==
    pc # "window" =>
        /\ pc \in {"draw", "postprocess"}
        /\ warned <=> (Val(options.window) < min_window)

-----------------------------------------------------------------------------
(* Further properties of the convergence aggregation (SpecAggregate) *)

\* a and b are not both positive, both negative or both zero
SignsDiffer(a, b) ==
    ~ \/ (a > 0 /\ b > 0)
      \/ (a < 0 /\ b < 0)
      \/ (a = 0 /\ b = 0)

\* the 0-based offsets c at which the series changes sign between c and c+1
CrossingOffsets(ac) ==
    {c \in 0..(Len(ac) - 2) : SignsDiffer(ac[c + 1], ac[c + 2])}

\* the zero-crossings have been computed
CrossingsKnown == pc \in {"endpoints", "done"}

\* C24: the crossings of a run, in ascending order, are the sample indices
\* (W + c) * entropy_interval of the offsets c at which its angular
\* coefficients change sign, W being the window divided by entropy_interval.
C24_CrossingMappedToSampleIndex ==
    CrossingsKnown =>
        LET k == options.entropy_interval
            W == window_given \div k
        IN \A r \in DOMAIN zero_crossings :
              LET zc == zero_crossings[r]
              IN /\ Range(zc) = {(W + c) * k : c \in CrossingOffsets(ang_coeff[r])}
                 /\ \A p, q \in DOMAIN zc : p < q => zc[p] < zc[q]

\* an interval of 2 and a window of 2 samples (W = 1): the crossing at
\* offset 1 is mapped to sample index (1 + 1) * 2 = 4
C24_Witness ==
    /\ CrossingsKnown
    /\ options.entropy_interval = 2
    /\ window_given = 2
    /\ \E r \in DOMAIN zero_crossings :
          /\ 1 \in CrossingOffsets(ang_coeff[r])
          /\ 4 \in Range(zero_crossings[r])

\* C26: a run has one crossing for each offset at which the sign of the
\* angular coefficient, one of -1, 0 and +1, differs from the sign at the
\* next offset, and no other; so a series going from positive through an
\* exact zero to negative has two crossings.
C26_CrossingsAreSignChanges ==
    CrossingsKnown =>
        \A r \in DOMAIN zero_crossings :
           /\ Len(zero_crossings[r]) = Cardinality(CrossingOffsets(ang_coeff[r]))
           /\ \A c \in 0..(Len(ang_coeff[r]) - 3) :
                 (/\ ang_coeff[r][c + 1] > 0
                  /\ ang_coeff[r][c + 2] = 0
                  /\ ang_coeff[r][c + 3] < 0) =>
                    {c, c + 1} \subseteq
                       {(zero_crossings[r][p] \div entropy_interval)
                           - Val(options.window) : p \in DOMAIN zero_crossings[r]}

\* a series that is positive, zero, negative and has exactly two crossings
C26_Witness ==
    /\ CrossingsKnown
    /\ \E r \in DOMAIN zero_crossings :
          /\ Len(ang_coeff[r]) = 3
          /\ ang_coeff[r][1] > 0 /\ ang_coeff[r][2] = 0 /\ ang_coeff[r][3] < 0
          /\ Len(zero_crossings[r]) = 2

\* the runs that have the crossing main() reads, zc[options.zero_crossings]
RunsWithRequiredCrossing ==
    {r \in DOMAIN zero_crossings : Len(zero_crossings[r]) > options.zero_crossings}

RECURSIVE SumOfRequired(_)
SumOfRequired(R) ==
    IF R = {} THEN 0
    ELSE LET r == CHOOSE x \in R : TRUE
         IN zero_crossings[r][options.zero_crossings + 1] + SumOfRequired(R \ {r})

-----------------------------------------------------------------------------
(* Properties of interleaved calls of rejection_sampler (SpecInterleaved) *)

\* what a call with arguments a and envelope t returns when it runs alone
\* from the generator state pos, None if it never returns
RECURSIVE AloneFrom(_, _, _, _, _)
AloneFrom(a, t, acc, pos, fuel) ==
    IF ~(Len(acc) < a.n_draws) THEN Some(Truncate(acc, a.n_draws))
    ELSE IF fuel = 0 THEN None
    ELSE AloneFrom(a, t, acc \o BatchAt(a, t, pos), Advance(a.n_draws, pos),
                   fuel - 1)

RunAlone(a, pos) ==
    AloneFrom(a, Top(a), <<>>, pos, a.n_draws * StreamPeriod + 1)

\* C21 (as claimed, for rejection sampling): a call shares no state with
\* the other call, so when it returns it returns what it would have
\* returned had it run alone from the state in which it was called.
C21_CallsDoNotInterfere ==
    \A c \in DOMAIN calls :
       calls[c].pc = "returned" =>
          Some(Val(calls[c].result)) = RunAlone(calls[c].args, calls[c].start)

-----------------------------------------------------------------------------
(* Properties of two executions with one seed (SpecSeeded) *)

-----------------------------------------------------------------------------
(* Properties of the parallel reconstruction (SpecParallel) *)

\* the actors that have been constructed
Constructed == {w \in DOMAIN workers : workers[w].pc # "new"}

\* the samples as main() loaded them
LoadedSamples == [p \in 1..Len(heap[0]) |-> p]

C23_States ==
    /\ heap[0] = LoadedSamples
    /\ \A w \in Constructed :
          /\ workers[w].samples # 0
          /\ \A u \in Constructed \ {w} : workers[u].samples # workers[w].samples
          /\ Range(heap[workers[w].samples]) = Range(LoadedSamples)
          /\ Len(heap[workers[w].samples]) = Len(LoadedSamples)
          /\ Cardinality(Range(workers[w].mixture)) = Len(workers[w].mixture)
    /\ \A d \in DOMAIN par_draws : par_draws[d] = build_mixture(LoadedSamples)

\* the step changes the estimator or the array of actor w
Touches(w) ==
    \/ workers'[w].mixture # workers[w].mixture
    \/ /\ workers[w].pc # "new"
       /\ heap'[workers[w].samples] # heap[workers[w].samples]

C23_Steps ==
    /\ heap'[0] = heap[0]
    /\ \A w, u \in DOMAIN workers : (w # u /\ Touches(w)) => ~Touches(u)

\* C23: every actor has its own estimator and its own copy of the samples:
\* the array of main() is never changed, no two actors refer to one array,
\* a step that changes the array or the estimator of one actor leaves those
\* of every other actor as they were, and without any synchronisation every
\* draw ingests each loaded sample exactly once, whatever the interleaving.
C23_WorkersAreIsolated == []C23_States /\ [][C23_Steps]_vars

\* two actors are ingesting at the same time, each its own array, in
\* different orders, neither in the order of the array of main()
C23_Witness ==
    /\ workers # <<>>
    /\ \E w, u \in DOMAIN workers :
          /\ w # u
          /\ workers[w].pc = "ingest" /\ workers[w].i > 0
          /\ workers[u].pc = "ingest" /\ workers[u].i > 0
          /\ heap[workers[w].samples] # heap[workers[u].samples]
          /\ heap[workers[w].samples] # heap[0]
          /\ heap[workers[u].samples] # heap[0]

====
